---- MODULE Spec2Model ----
(***************************************************************************)
(* Model of load_and_parse_data (src/activity_dashboard.py, lines 229-427) *)
(* and of the category filter main() applies to its result (line 485).     *)
(*                                                                         *)
(* A Python str is a sequence of one-character strings.  None is the empty *)
(* tuple <<>> and a present value v is <<v>>, so that optional values can  *)
(* be compared.  A float obtained as n / 60 is the pair <<n, 60>>.         *)
(***************************************************************************)
EXTENDS Integers, Sequences, FiniteSets, TLC

None == <<>>
Some(v) == <<v>>

(* ---------------------------------------------------------------------- *)
(* Characters and the str methods the parser uses                         *)
(* ---------------------------------------------------------------------- *)

\* U+00B3 SUPERSCRIPT THREE: str.isdigit() is True for it, while int() and
\* the regular expression class \d reject it.
SUP3 == "sup3"

DecimalChars == {"0", "1", "2", "3", "4", "5", "6", "7", "8", "9"}

\* c.isdecimal(), the class \d, and the characters int() accepts as digits
IsDecimal(c) == c \in DecimalChars

\* c.isdigit()
IsDigit(c) == c \in DecimalChars \cup {SUP3}

\* c.isspace(), the class \s
IsSpace(c) == c \in {" ", "\t", "\n", "\r"}

UpperChars == {"A", "B", "C", "D", "E", "F", "G", "H", "I", "J", "K", "L", "M",
               "N", "O", "P", "Q", "R", "S", "T", "U", "V", "W", "X", "Y", "Z"}

LowerChars == {"a", "b", "c", "d", "e", "f", "g", "h", "i", "j", "k", "l", "m",
               "n", "o", "p", "q", "r", "s", "t", "u", "v", "w", "x", "y", "z"}

\* the class \w
IsWord(c) == c \in DecimalChars \cup UpperChars \cup LowerChars \cup {"_", SUP3}

InClass(cls, c) ==
    CASE cls = "d" -> IsDecimal(c)
      [] cls = "s" -> IsSpace(c)
      [] cls = "w" -> IsWord(c)

DigitVal(c) ==
    CASE c = "0" -> 0 [] c = "1" -> 1 [] c = "2" -> 2 [] c = "3" -> 3
      [] c = "4" -> 4 [] c = "5" -> 5 [] c = "6" -> 6 [] c = "7" -> 7
      [] c = "8" -> 8 [] c = "9" -> 9

UpperSeq == <<"A", "B", "C", "D", "E", "F", "G", "H", "I", "J", "K", "L", "M",
              "N", "O", "P", "Q", "R", "S", "T", "U", "V", "W", "X", "Y", "Z">>

LowerSeq == <<"a", "b", "c", "d", "e", "f", "g", "h", "i", "j", "k", "l", "m",
              "n", "o", "p", "q", "r", "s", "t", "u", "v", "w", "x", "y", "z">>

LowerChar(c) ==
    IF c \in UpperChars
    THEN LowerSeq[CHOOSE i \in 1..26 : UpperSeq[i] = c]
    ELSE c

\* s.lower()
lower(s) == [i \in 1..Len(s) |-> LowerChar(s[i])]

\* s.isdigit(): every character is a digit and there is at least one
isdigit(s) == Len(s) > 0 /\ \A i \in 1..Len(s) : IsDigit(s[i])

\* int(s) raises ValueError (s holds only characters for which isdigit is True)
IntRaises(s) == Len(s) = 0 \/ \E i \in 1..Len(s) : ~IsDecimal(s[i])

RECURSIVE int(_)
\* int(s) for a string of decimal digits
int(s) ==
    IF Len(s) = 0 THEN 0
    ELSE 10 * int(SubSeq(s, 1, Len(s) - 1)) + DigitVal(s[Len(s)])

RECURSIVE lstrip(_)
lstrip(s) ==
    IF Len(s) > 0 /\ IsSpace(Head(s)) THEN lstrip(Tail(s)) ELSE s

RECURSIVE rstrip(_)
rstrip(s) ==
    IF Len(s) > 0 /\ IsSpace(s[Len(s)]) THEN rstrip(SubSeq(s, 1, Len(s) - 1)) ELSE s

\* s.strip()
strip(s) == rstrip(lstrip(s))

\* s.find(sep) for a one-character sep, 1-based; 0 when sep does not occur
find(s, sep) ==
    IF \E i \in 1..Len(s) : s[i] = sep
    THEN CHOOSE i \in 1..Len(s) : s[i] = sep /\ \A j \in 1..(i - 1) : s[j] # sep
    ELSE 0

RECURSIVE split(_, _, _)
\* s.split(sep, maxsplit) for a one-character sep; maxsplit = -1 is no limit
split(s, sep, maxsplit) ==
    LET k == find(s, sep) IN
    IF maxsplit = 0 \/ k = 0 THEN <<s>>
    ELSE <<SubSeq(s, 1, k - 1)>> \o split(SubSeq(s, k + 1, Len(s)), sep, maxsplit - 1)

RECURSIVE RunLen(_, _, _)
\* the number of consecutive characters of class cls in s from position p on
RunLen(s, p, cls) ==
    IF p <= Len(s) /\ InClass(cls, s[p]) THEN 1 + RunLen(s, p + 1, cls) ELSE 0

(* ---------------------------------------------------------------------- *)
(* The parser's helpers                                                   *)
(* ---------------------------------------------------------------------- *)

\* re.match of (\d{1,2}/\d{1,2}/\d{2})\s+(\w+)\s+(\d{4})-(\d{4}) at the start of
\* the stripped line.  Every quantified class is followed by a character outside
\* the class, so the greedy match is the only candidate: a run of \d{1,2} must
\* be 1 or 2 long, \w+ and \s+ take their whole run; \d{2} and \d{4} take
\* exactly that many and the next pattern element decides.
parse_day_header(line) ==
    LET s  == strip(line)
        n  == Len(s)
        m1 == RunLen(s, 1, "d")
        p2 == 1 + m1 + 1
        m2 == RunLen(s, p2, "d")
        p3 == p2 + m2 + 1
        m3 == RunLen(s, p3, "d")
        p4 == p3 + 2
        m4 == RunLen(s, p4, "s")
        p5 == p4 + m4
        m5 == RunLen(s, p5, "w")
        p6 == p5 + m5
        m6 == RunLen(s, p6, "s")
        p7 == p6 + m6
        m7 == RunLen(s, p7, "d")
        p8 == p7 + 4
        p9 == p8 + 1
        m9 == RunLen(s, p9, "d")
    IN  IF /\ m1 \in {1, 2}
           /\ p2 - 1 <= n /\ s[p2 - 1] = "/"
           /\ m2 \in {1, 2}
           /\ p3 - 1 <= n /\ s[p3 - 1] = "/"
           /\ m3 >= 2
           /\ m4 >= 1
           /\ m5 >= 1
           /\ m6 >= 1
           /\ m7 >= 4
           /\ p8 <= n /\ s[p8] = "-"
           /\ m9 >= 4
        THEN Some([date        |-> SubSeq(s, 1, p4 - 1),
                   day_of_week |-> SubSeq(s, p5, p6 - 1),
                   start_time  |-> SubSeq(s, p7, p8 - 1),
                   end_time    |-> SubSeq(s, p9, p9 + 3)])
        ELSE None

\* parse_activity_record without the test of the time field in line 264
parse_activity_record_NoTimeCheck(line) ==
    LET parts == split(strip(line), " ", 2) IN
    IF Len(parts) >= 2
    THEN LET time_str    == parts[1]
             category    == parts[2]
             description == IF Len(parts) > 2 THEN parts[3] ELSE <<>>
         IN  Some([time        |-> time_str,
                   category    |-> category,
                   description |-> description])
    ELSE None

\* parse_activity_record that takes a line of one part as a record with an
\* empty category: >= 1 for >= 2 in line 260
parse_activity_record_TimeOnly(line) ==
    LET parts == split(strip(line), " ", 2) IN
    IF Len(parts) >= 1
    THEN LET time_str    == parts[1]
             category    == IF Len(parts) > 1 THEN parts[2] ELSE <<>>
             description == IF Len(parts) > 2 THEN parts[3] ELSE <<>>
         IN  IF Len(time_str) = 4 /\ isdigit(time_str)
             THEN Some([time        |-> time_str,
                        category    |-> category,
                        description |-> description])
             ELSE None
    ELSE None

\* lines 257-271
parse_activity_record(line) ==
    LET parts == split(strip(line), " ", 2) IN
    IF Len(parts) >= 2
    THEN LET time_str    == parts[1]
             category    == parts[2]
             description == IF Len(parts) > 2 THEN parts[3] ELSE <<>>
         IN  IF Len(time_str) = 4 /\ isdigit(time_str)
             THEN Some([time        |-> time_str,
                        category    |-> category,
                        description |-> description])
             ELSE None
    ELSE None

\* time_to_minutes(time_str) raises ValueError: int() of one of its halves does
time_to_minutes_raises(time_str) ==
    /\ Len(time_str) = 4 /\ isdigit(time_str)
    /\ \/ IntRaises(SubSeq(time_str, 1, 2))
       \/ IntRaises(SubSeq(time_str, 3, 4))

\* lines 273-281, for an argument on which it does not raise
time_to_minutes(time_str) ==
    IF Len(time_str) # 4 \/ ~isdigit(time_str) THEN None
    ELSE LET hours   == int(SubSeq(time_str, 1, 2))
             minutes == int(SubSeq(time_str, 3, 4))
         IN  IF hours >= 24 \/ minutes >= 60 THEN None
             ELSE Some(hours * 60 + minutes)

IsLeap(year) == year % 4 = 0 /\ (year % 100 # 0 \/ year % 400 = 0)

DaysInMonth(year, month) ==
    CASE month \in {1, 3, 5, 7, 8, 10, 12} -> 31
      [] month \in {4, 6, 9, 11} -> 30
      [] month = 2 -> IF IsLeap(year) THEN 29 ELSE 28

\* datetime(year, month, day) does not raise ValueError
ValidDate(year, month, day) ==
    /\ year \in 1..9999
    /\ month \in 1..12
    /\ day \in 1..DaysInMonth(year, month)

\* parse_date without the calendar check of datetime(), line 292
parse_date_NoValidation(date_str) ==
    LET f == split(date_str, "/", -1) IN
    IF Len(f) # 3 \/ \E i \in 1..3 : IntRaises(f[i]) THEN None
    ELSE LET yy   == int(f[3])
             year == IF yy < 50 THEN yy + 2000 ELSE yy + 1900
         IN  Some([year |-> year, month |-> int(f[1]), day |-> int(f[2])])

\* parse_date with the pivot of strptime's %y, 69, in line 289
parse_date_Pivot69(date_str) ==
    LET f == split(date_str, "/", -1) IN
    IF Len(f) # 3 \/ \E i \in 1..3 : IntRaises(f[i]) THEN None
    ELSE LET yy   == int(f[3])
             year == IF yy < 69 THEN yy + 2000 ELSE yy + 1900
             month == int(f[1])
             day   == int(f[2])
         IN  IF ValidDate(year, month, day)
             THEN Some([year |-> year, month |-> month, day |-> day])
             ELSE None

\* lines 283-294; the date is the string the header pattern captured.  A
\* datetime is the record of its year, month and day.
parse_date(date_str) ==
    LET f == split(date_str, "/", -1) IN
    IF Len(f) # 3 \/ \E i \in 1..3 : IntRaises(f[i]) THEN None
    ELSE LET yy   == int(f[3])
             year == IF yy < 50 THEN yy + 2000 ELSE yy + 1900
             month == int(f[1])
             day   == int(f[2])
         IN  IF ValidDate(year, month, day)
             THEN Some([year |-> year, month |-> month, day |-> day])
             ELSE None

\* the order of datetime values, as sorted() compares its keys
DateLess(a, b) ==
    \/ a.year < b.year
    \/ a.year = b.year /\ a.month < b.month
    \/ a.year = b.year /\ a.month = b.month /\ a.day < b.day

(* ---------------------------------------------------------------------- *)
(* The steps of load_and_parse_data as operators                          *)
(* ---------------------------------------------------------------------- *)

\* line 297
SplitLines(text) == split(strip(text), "\n", -1)

\* ParseStep in which a header opens a Day without closing the open one
ParseStep_NoClose(cur, days, rawline) ==
    LET line == strip(rawline) IN
    IF line = <<>> THEN [current_day |-> cur, days_data |-> days]
    ELSE LET day_header == parse_day_header(line) IN
         IF day_header # None
         THEN [current_day |-> Some([date        |-> day_header[1].date,
                                     day_of_week |-> day_header[1].day_of_week,
                                     start_time  |-> day_header[1].start_time,
                                     end_time    |-> day_header[1].end_time,
                                     activities  |-> <<>>]),
               days_data   |-> days]
         ELSE IF cur # None
         THEN LET activity == parse_activity_record(line) IN
              IF activity # None
              THEN [current_day |-> Some([cur[1] EXCEPT
                                            !.activities = Append(@, activity[1])]),
                    days_data   |-> days]
              ELSE [current_day |-> cur, days_data |-> days]
         ELSE [current_day |-> cur, days_data |-> days]

\* ParseStep in which a new Day starts with the activity list of the open one
ParseStep_KeepActivities(cur, days, rawline) ==
    LET line == strip(rawline) IN
    IF line = <<>> THEN [current_day |-> cur, days_data |-> days]
    ELSE LET day_header == parse_day_header(line) IN
         IF day_header # None
         THEN [current_day |-> Some([date        |-> day_header[1].date,
                                     day_of_week |-> day_header[1].day_of_week,
                                     start_time  |-> day_header[1].start_time,
                                     end_time    |-> day_header[1].end_time,
                                     activities  |-> IF cur # None
                                                     THEN cur[1].activities
                                                     ELSE <<>>]),
               days_data   |-> IF cur # None THEN Append(days, cur[1]) ELSE days]
         ELSE IF cur # None
         THEN LET activity == parse_activity_record(line) IN
              IF activity # None
              THEN [current_day |-> Some([cur[1] EXCEPT
                                            !.activities = Append(@, activity[1])]),
                    days_data   |-> days]
              ELSE [current_day |-> cur, days_data |-> days]
         ELSE [current_day |-> cur, days_data |-> days]

\* ParseStep in which a record line before any header opens a Day of its own
ParseStep_OrphanOpensDay(cur, days, rawline) ==
    LET line == strip(rawline) IN
    IF line = <<>> THEN [current_day |-> cur, days_data |-> days]
    ELSE LET day_header == parse_day_header(line)
             activity   == parse_activity_record(line)
         IN
         IF day_header # None
         THEN [current_day |-> Some([date        |-> day_header[1].date,
                                     day_of_week |-> day_header[1].day_of_week,
                                     start_time  |-> day_header[1].start_time,
                                     end_time    |-> day_header[1].end_time,
                                     activities  |-> <<>>]),
               days_data   |-> IF cur # None THEN Append(days, cur[1]) ELSE days]
         ELSE IF activity = None THEN [current_day |-> cur, days_data |-> days]
         ELSE IF cur # None
         THEN [current_day |-> Some([cur[1] EXCEPT
                                       !.activities = Append(@, activity[1])]),
               days_data   |-> days]
         ELSE [current_day |-> Some([date        |-> <<>>,
                                     day_of_week |-> <<>>,
                                     start_time  |-> <<>>,
                                     end_time    |-> <<>>,
                                     activities  |-> <<activity[1]>>]),
               days_data   |-> days]

\* ParseStep in which a blank line ends the block of the open Day
ParseStep_BlankCloses(cur, days, rawline) ==
    LET line == strip(rawline) IN
    IF line = <<>>
    THEN [current_day |-> None,
          days_data   |-> IF cur # None THEN Append(days, cur[1]) ELSE days]
    ELSE LET day_header == parse_day_header(line) IN
         IF day_header # None
         THEN [current_day |-> Some([date        |-> day_header[1].date,
                                     day_of_week |-> day_header[1].day_of_week,
                                     start_time  |-> day_header[1].start_time,
                                     end_time    |-> day_header[1].end_time,
                                     activities  |-> <<>>]),
               days_data   |-> IF cur # None THEN Append(days, cur[1]) ELSE days]
         ELSE IF cur # None
         THEN LET activity == parse_activity_record(line) IN
              IF activity # None
              THEN [current_day |-> Some([cur[1] EXCEPT
                                            !.activities = Append(@, activity[1])]),
                    days_data   |-> days]
              ELSE [current_day |-> cur, days_data |-> days]
         ELSE [current_day |-> cur, days_data |-> days]

\* lines 302-321: the body of the parse loop for one line, from the open Day
\* cur (None or Some(day)) and the Days closed so far
ParseStep(cur, days, rawline) ==
    LET line == strip(rawline) IN
    IF line = <<>> THEN [current_day |-> cur, days_data |-> days]
    ELSE LET day_header == parse_day_header(line) IN
         IF day_header # None
         THEN [current_day |-> Some([date        |-> day_header[1].date,
                                     day_of_week |-> day_header[1].day_of_week,
                                     start_time  |-> day_header[1].start_time,
                                     end_time    |-> day_header[1].end_time,
                                     activities  |-> <<>>]),
               days_data   |-> IF cur # None THEN Append(days, cur[1]) ELSE days]
         ELSE IF cur # None
         THEN LET activity == parse_activity_record(line) IN
              IF activity # None
              THEN [current_day |-> Some([cur[1] EXCEPT
                                            !.activities = Append(@, activity[1])]),
                    days_data   |-> days]
              ELSE [current_day |-> cur, days_data |-> days]
         ELSE [current_day |-> cur, days_data |-> days]

\* no reversal: the list is left in file order
reverse_FileOrder(s) == s

\* list.reverse(), line 337
reverse(s) == [i \in 1..Len(s) |-> s[Len(s) + 1 - i]]

\* line 359 and lines 350, 364: duration / 60 if duration else 0
DurationHours(duration) ==
    IF duration # None /\ duration[1] # 0 THEN <<duration[1], 60>> ELSE <<0, 1>>

\* DurationMinutes without the midnight crossover of lines 354-355
DurationMinutes_NoWrap(activities, i) ==
    LET curr_minutes == time_to_minutes(activities[i].time)
        next_minutes == time_to_minutes(activities[i + 1].time)
    IN  IF curr_minutes = None \/ next_minutes = None THEN None
        ELSE Some(next_minutes[1] - curr_minutes[1])

\* DurationMinutes with <= for < in line 354
DurationMinutes_WrapEqual(activities, i) ==
    LET curr_minutes == time_to_minutes(activities[i].time)
        next_minutes == time_to_minutes(activities[i + 1].time)
    IN  IF curr_minutes = None \/ next_minutes = None THEN None
        ELSE IF next_minutes[1] <= curr_minutes[1]
             THEN Some(next_minutes[1] + 24 * 60 - curr_minutes[1])
             ELSE Some(next_minutes[1] - curr_minutes[1])

\* DurationMinutes that takes the distance of the two times for a negative
\* difference, in the place of lines 354-355
DurationMinutes_Distance(activities, i) ==
    LET curr_minutes == time_to_minutes(activities[i].time)
        next_minutes == time_to_minutes(activities[i + 1].time)
    IN  IF curr_minutes = None \/ next_minutes = None THEN None
        ELSE IF next_minutes[1] < curr_minutes[1]
             THEN Some(curr_minutes[1] - next_minutes[1])
             ELSE Some(next_minutes[1] - curr_minutes[1])

\* lines 345-358: the duration of chronological position i, i < len(activities)
DurationMinutes(activities, i) ==
    LET curr_minutes == time_to_minutes(activities[i].time)
        next_minutes == time_to_minutes(activities[i + 1].time)
    IN  IF curr_minutes = None \/ next_minutes = None THEN None
        ELSE IF next_minutes[1] < curr_minutes[1]
             THEN Some(next_minutes[1] + 24 * 60 - curr_minutes[1])
             ELSE Some(next_minutes[1] - curr_minutes[1])

\* lines 340-346: a call of time_to_minutes in the duration loop raises
DayRaises(day) ==
    \E i \in 1..(Len(day.activities) - 1) :
        \/ time_to_minutes_raises(day.activities[i].time)
        \/ time_to_minutes_raises(day.activities[i + 1].time)

\* ActivityDuration whose loop wraps around: the last position is timed
\* against the first
ActivityDuration_Cyclic(activities, i) ==
    DurationMinutes(activities \o <<activities[1]>>, i)

\* lines 340-364: duration_minutes of chronological position i; the last
\* position gets None
ActivityDuration(activities, i) ==
    IF i < Len(activities) THEN DurationMinutes(activities, i) ELSE None

\* lines 333-366 for one Day on which no call raises
DeriveDay(day) ==
    LET activities == reverse(day.activities)
        dur(i) == ActivityDuration(activities, i)
    IN  [date        |-> day.date,
         day_of_week |-> day.day_of_week,
         start_time  |-> day.start_time,
         end_time    |-> day.end_time,
         parsed_date |-> parse_date(day.date),
         activities  |-> [i \in 1..Len(activities) |->
                            [time             |-> activities[i].time,
                             category         |-> activities[i].category,
                             description      |-> activities[i].description,
                             duration_minutes |-> dur(i),
                             duration_hours   |-> DurationHours(dur(i))]]]

\* CategoryName that looks the code up without regard to case
CategoryName_AnyCase(category) ==
    LET code == lower(category) IN
    CASE code = <<"p">> -> "Productive"
      [] code = <<"r">> -> "Routine"
      [] code = <<"e">> -> "Eat"
      [] code = <<"s">> -> "Social"
      [] code = <<"w">> -> "Workout"
      [] code = <<"f">> -> "Fun"
      [] code = <<"g", "o", "d">> -> "God"
      [] code = <<"l", "o">> -> "Sleep"
      [] OTHER -> "Unknown"

\* lines 205-215 and ACTIVITY_CATEGORIES.get(category, 'Unknown'), line 389
CategoryName(category) ==
    CASE category = <<"P">> -> "Productive"
      [] category = <<"R">> -> "Routine"
      [] category = <<"E">> -> "Eat"
      [] category = <<"S">> -> "Social"
      [] category = <<"W">> -> "Workout"
      [] category = <<"F">> -> "Fun"
      [] category = <<"G", "O", "D">> -> "God"
      [] category = <<"L", "O">> -> "Sleep"
      [] OTHER -> "Unknown"

\* Skipped without the test for a duration of 0 in line 378
Skipped_KeepZero(activity) ==
    \/ lower(activity.description) = <<"l", "o">>
    \/ activity.duration_minutes = None

\* Skipped without lower() in line 374
Skipped_CaseSensitive(activity) ==
    \/ activity.description = <<"l", "o">>
    \/ activity.duration_minutes = None
    \/ activity.duration_minutes = Some(0)

\* lines 374-379: the activity is skipped
Skipped(activity) ==
    \/ lower(activity.description) = <<"l", "o">>
    \/ activity.duration_minutes = None
    \/ activity.duration_minutes = Some(0)

\* lines 381-393
Row(day, activity) ==
    [date             |-> day.date,
     parsed_date      |-> day.parsed_date,
     day_of_week      |-> day.day_of_week,
     start_time       |-> day.start_time,
     end_time         |-> day.end_time,
     activity_time    |-> activity.time,
     category         |-> activity.category,
     category_name    |-> CategoryName(activity.category),
     description      |-> activity.description,
     duration_minutes |-> activity.duration_minutes,
     duration_hours   |-> activity.duration_hours]

\* lines 372-393 for one Day
DayRows(day) ==
    LET kept == SelectSeq(day.activities, LAMBDA a : ~Skipped(a))
    IN  [i \in 1..Len(kept) |-> Row(day, kept[i])]

RECURSIVE EmitRows(_)
\* lines 370-393
EmitRows(days) ==
    IF days = <<>> THEN <<>>
    ELSE EmitRows(SubSeq(days, 1, Len(days) - 1)) \o DayRows(days[Len(days)])

\* the filter of line 485 on the column category_name
FilterLO_ByName(activities_df) ==
    SelectSeq(activities_df, LAMBDA r : r.category_name # "LO")

\* sorted that leaves the Days in file order
sorted_FileOrder(days) == days

RECURSIVE sorted(_)
\* sorted(days, key=parsed_date), lines 399-400: a stable sort, so Days of equal
\* date keep their order; each Day goes behind every Day not later than it
sorted(days) ==
    IF days = <<>> THEN <<>>
    ELSE LET x    == days[Len(days)]
             rest == sorted(SubSeq(days, 1, Len(days) - 1))
             k    == Cardinality({i \in 1..Len(rest) :
                         ~DateLess(x.parsed_date[1], rest[i].parsed_date[1])})
         IN  SubSeq(rest, 1, k) \o <<x>> \o SubSeq(rest, k + 1, Len(rest))

\* pd.to_datetime(date, format='%m/%d/%y'), line 425, for a date that parse_date
\* accepts: %y resolves 00-68 to 2000-2068 and 69-99 to 1969-1999
to_datetime(date_str) ==
    LET f  == split(date_str, "/", -1)
        yy == int(f[3])
    IN  [year  |-> IF yy <= 68 THEN yy + 2000 ELSE yy + 1900,
         month |-> int(f[1]),
         day   |-> int(f[2])]

\* SleepPair with <= for < in line 410: a next start equal to the current end
\* wraps to the next day
SleepPair_WrapEqual(current_day, next_day) ==
    LET current_end == time_to_minutes(current_day.end_time)
        next_start  == time_to_minutes(next_day.start_time)
    IN  IF current_end # None /\ next_start # None
        THEN LET sleep_duration ==
                     IF next_start[1] <= current_end[1]
                     THEN (next_start[1] + 1440) - current_end[1]
                     ELSE next_start[1] - current_end[1]
             IN  <<[current_date         |-> current_day.date,
                    next_date            |-> next_day.date,
                    sleep_duration_hours |-> <<sleep_duration, 60>>,
                    sleep_start_date     |-> to_datetime(current_day.date)]>>
        ELSE <<>>

\* lines 403-419 for the adjacent pair (current_day, next_day)
SleepPair(current_day, next_day) ==
    LET current_end == time_to_minutes(current_day.end_time)
        next_start  == time_to_minutes(next_day.start_time)
    IN  IF current_end # None /\ next_start # None
        THEN LET sleep_duration ==
                     IF next_start[1] < current_end[1]
                     THEN (next_start[1] + 1440) - current_end[1]
                     ELSE next_start[1] - current_end[1]
             IN  <<[current_date         |-> current_day.date,
                    next_date            |-> next_day.date,
                    sleep_duration_hours |-> <<sleep_duration, 60>>,
                    sleep_start_date     |-> to_datetime(current_day.date)]>>
        ELSE <<>>

\* line 399: the Days that have a parsed date, sorted by it
DaysSorted(days) == sorted(SelectSeq(days, LAMBDA d : d.parsed_date # None))

RECURSIVE SleepRows(_, _)
\* lines 402-419: the intervals of the pairs (1,2) .. (n-1,n) of days_sorted
SleepRows(days_sorted, n) ==
    IF n < 2 THEN <<>>
    ELSE SleepRows(days_sorted, n - 1) \o SleepPair(days_sorted[n - 1], days_sorted[n])

\* lines 398-425
SleepData(days) == SleepRows(DaysSorted(days), Len(DaysSorted(days)))

RECURSIVE ParseFold(_, _)
\* lines 298-321: the open Day and the closed Days after the first n lines
ParseFold(ls, n) ==
    IF n = 0 THEN [current_day |-> None, days_data |-> <<>>]
    ELSE LET r == ParseFold(ls, n - 1)
         IN  ParseStep(r.current_day, r.days_data, ls[n])

\* lines 297-324: the Days of a text, before the derivation
ParseAll(text) ==
    LET ls == SplitLines(text)
        r  == ParseFold(ls, Len(ls))
    IN  IF r.current_day # None
        THEN Append(r.days_data, r.current_day[1])
        ELSE r.days_data

\* lines 229-427: the call load_and_parse_data(text) as a whole.  status is
\* "raised" when the ValueError of time_to_minutes leaves the call, and the
\* call has no result then
load_and_parse_data(text) ==
    LET parsed == ParseAll(text) IN
    IF \E k \in 1..Len(parsed) : DayRaises(parsed[k])
    THEN [status |-> "raised", days_data |-> <<>>,
          activities_data |-> <<>>, sleep_data |-> <<>>]
    ELSE LET days == [k \in 1..Len(parsed) |-> DeriveDay(parsed[k])]
         IN  [status          |-> "returned",
              days_data       |-> days,
              activities_data |-> EmitRows(days),
              sleep_data      |-> SleepData(days)]

\* line 485 of main: activities_df[activities_df['category'] != 'LO']
FilterLO(activities_df) ==
    SelectSeq(activities_df, LAMBDA r : r.category # <<"L", "O">>)

(* ---------------------------------------------------------------------- *)
(* The state machine                                                      *)
(* ---------------------------------------------------------------------- *)

VARIABLES
    file_content,     \* the argument of load_and_parse_data
    pc,               \* the position in load_and_parse_data and in main
    lines,            \* line 297
    idx,              \* the position of the parse loop in lines
    current_day,      \* line 299
    days_data,        \* line 298
    activities_data,  \* line 370, returned as activities_df
    sleep_data,       \* line 398, returned as sleep_df
    filtered_df,      \* line 485 of main
    prev              \* what an earlier call on the same text has returned

vars == <<file_content, pc, lines, idx, current_day, days_data,
          activities_data, sleep_data, filtered_df, prev>>

\* Split that leaves days_data and current_day as they are, as if they
\* outlived the call
Split_KeepDays ==
    /\ pc = "split"
    /\ lines' = SplitLines(file_content)
    /\ idx' = 1
    /\ pc' = "parse"
    /\ UNCHANGED <<file_content, current_day, days_data, activities_data,
                   sleep_data, filtered_df, prev>>

\* lines 297-299: the lines of the text, and the locals days_data and
\* current_day of this call
Split ==
    /\ pc = "split"
    /\ lines' = SplitLines(file_content)
    /\ idx' = 1
    /\ days_data' = <<>>
    /\ current_day' = None
    /\ pc' = "parse"
    /\ UNCHANGED <<file_content, activities_data, sleep_data, filtered_df, prev>>

\* lines 301-321: one iteration of the parse loop
ParseLine ==
    /\ pc = "parse"
    /\ idx <= Len(lines)
    /\ LET r == ParseStep(current_day, days_data, lines[idx]) IN
         /\ current_day' = r.current_day
         /\ days_data' = r.days_data
    /\ idx' = idx + 1
    /\ UNCHANGED <<file_content, pc, lines, activities_data, sleep_data,
                   filtered_df, prev>>

\* lines 323-324: the loop is over, the open Day is closed
EndParse ==
    /\ pc = "parse"
    /\ idx > Len(lines)
    /\ days_data' = IF current_day # None
                    THEN Append(days_data, current_day[1])
                    ELSE days_data
    /\ pc' = "derive"
    /\ UNCHANGED <<file_content, lines, idx, current_day, activities_data,
                   sleep_data, filtered_df, prev>>

\* lines 332-366: the derivation loop over all Days; a ValueError of
\* time_to_minutes leaves load_and_parse_data without a result
Derive ==
    /\ pc = "derive"
    /\ IF \E k \in 1..Len(days_data) : DayRaises(days_data[k])
       THEN /\ pc' = "raised"
            /\ UNCHANGED days_data
       ELSE /\ pc' = "emit"
            /\ days_data' = [k \in 1..Len(days_data) |-> DeriveDay(days_data[k])]
    /\ UNCHANGED <<file_content, lines, idx, current_day, activities_data,
                   sleep_data, filtered_df, prev>>

\* lines 368-395
Emit ==
    /\ pc = "emit"
    /\ activities_data' = EmitRows(days_data)
    /\ pc' = "sleep"
    /\ UNCHANGED <<file_content, lines, idx, current_day, days_data,
                   sleep_data, filtered_df, prev>>

\* lines 397-427
Sleep ==
    /\ pc = "sleep"
    /\ sleep_data' = SleepData(days_data)
    /\ pc' = "returned"
    /\ UNCHANGED <<file_content, lines, idx, current_day, days_data,
                   activities_data, filtered_df, prev>>

\* line 485 of main, on the result of load_and_parse_data
MainFilter ==
    /\ pc = "returned"
    /\ filtered_df' = FilterLO(activities_data)
    /\ pc' = "filtered"
    /\ UNCHANGED <<file_content, lines, idx, current_day, days_data,
                   activities_data, sleep_data, prev>>

Next ==
    \/ Split
    \/ ParseLine
    \/ EndParse
    \/ Derive
    \/ Emit
    \/ Sleep
    \/ MainFilter

(* ---------------------------------------------------------------------- *)
(* Input texts                                                            *)
(* ---------------------------------------------------------------------- *)

\* the most lines of an input text of Spec
MaxLines == 4

\* the most lines that follow the opening header in an input text of SpecDays
MaxDayLines == 5

\* the most lines of an input text of SpecDays that opens with any line
MaxLeadLines == 3

\* the most record lines of the one Day of an input text of SpecTimes
MaxActs == 3

\* the most header lines of an input text of SpecSleep
MaxSleepDays == 3

\* the header M/D/YY <word> HHMM-HHMM of the fields h, written as in section 6
HeaderText(h) ==
    h.date \o <<" ">> \o h.day_of_week \o <<" ">> \o h.start_time \o <<"-">> \o h.end_time

\* the record line HHMM <category> <description> of the fields a
ActivityText(a) ==
    a.time \o <<" ">> \o a.category \o
    (IF a.description = <<>> THEN <<>> ELSE <<" ">> \o a.description)

H(date, day_of_week, start_time, end_time) ==
    [date |-> date, day_of_week |-> day_of_week,
     start_time |-> start_time, end_time |-> end_time]

A(time, category, description) ==
    [time |-> time, category |-> category, description |-> description]

\* the header 3/14/24 Th 0700-2330 of section 6
Header1 == H(<<"3", "/", "1", "4", "/", "2", "4">>, <<"T", "h">>, <<"0", "7", "0", "0">>, <<"2", "3", "3", "0">>)

\* a header earlier in the calendar: 3/13/24 W 0600-2300
Header2 == H(<<"3", "/", "1", "3", "/", "2", "4">>, <<"W">>, <<"0", "6", "0", "0">>, <<"2", "3", "0", "0">>)

HeaderPool == {Header1, Header2}

\* record lines: valid times on both sides of midnight, the lights-out marker
\* in two spellings, category LO with another description, an unknown category
\* with an hour of 25, a missing description, and a time whose third character
\* is a digit that is not decimal
ActivityPool ==
    {A(<<"2", "3", "3", "0">>, <<"L", "O">>, <<"l", "o">>),
     A(<<"2", "2", "0", "0">>, <<"P">>, <<"h", "w">>),
     A(<<"0", "0", "1", "5">>, <<"S">>, <<"L", "o">>),
     A(<<"2", "2", "0", "0">>, <<"L", "O">>, <<"n", "a", "p">>),
     A(<<"2", "5", "7", "5">>, <<"X">>, <<"h", "w">>),
     A(<<"2", "3", "3", "0">>, <<"P">>, <<>>),
     A(<<"1", "2", SUP3, "4">>, <<"P">>, <<"h", "w">>)}

\* record lines of SpecDays
DayActivityPool ==
    {A(<<"2", "3", "3", "0">>, <<"L", "O">>, <<"l", "o">>),
     A(<<"2", "2", "0", "0">>, <<"P">>, <<"h", "w">>)}

\* a line that is neither a header nor a record: it has one field
Junk == <<"x", "x">>

\* times of day of SpecTimes: valid ones, an hour of 25, a minute of 60, and a
\* time whose third character is a digit that is not decimal
TimePool ==
    {<<"0", "0", "0", "0">>, <<"0", "0", "1", "5">>, <<"2", "2", "0", "0">>, <<"2", "3", "3", "0">>, <<"2", "3", "5", "9">>, <<"2", "5", "7", "5">>, <<"2", "2", "6", "0">>, <<"1", "2", SUP3, "4">>}

\* dates of SpecSleep: three calendar dates, one of the last century, and
\* 30 February
SleepDatePool == {<<"3", "/", "1", "4", "/", "2", "4">>, <<"3", "/", "1", "3", "/", "2", "4">>, <<"1", "2", "/", "3", "1", "/", "6", "7">>, <<"2", "/", "3", "0", "/", "2", "4">>}

\* start and end times of SpecSleep: a night across midnight, a next start
\* before the current end, and an end with an hour of 25
SleepTimesPool == {<<<<"0", "6", "0", "0">>, <<"2", "3", "0", "0">>>>, <<<<"0", "0", "3", "0">>, <<"0", "1", "0", "0">>>>, <<<<"0", "7", "0", "0">>, <<"2", "5", "7", "5">>>>}

SleepHeaderPool ==
    {H(d, <<"M">>, t[1], t[2]) : d \in SleepDatePool, t \in SleepTimesPool}

RECURSIVE JoinLines(_)
\* the text whose lines are ls
JoinLines(ls) ==
    IF Len(ls) = 0 THEN <<>>
    ELSE IF Len(ls) = 1 THEN ls[1]
    ELSE JoinLines(SubSeq(ls, 1, Len(ls) - 1)) \o <<"\n">> \o ls[Len(ls)]

SeqsUpTo(S, n) == UNION {[1..k -> S] : k \in 0..n}

LinePool == {HeaderText(Header1)} \cup {ActivityText(a) : a \in ActivityPool}

DayLinePool ==
    {HeaderText(h) : h \in HeaderPool} \cup {ActivityText(a) : a \in DayActivityPool}
        \cup {Junk}

TimeLinePool == {ActivityText(A(t, <<"P">>, <<"h", "w">>)) : t \in TimePool}

\* texts of up to MaxLines lines, each Header1 or a record of any kind
Inputs == {JoinLines(ls) : ls \in SeqsUpTo(LinePool, MaxLines)}

\* texts of several Days, records and junk lines: the texts of up to
\* MaxLeadLines lines, and those of Header1 and up to MaxDayLines more lines
DayInputs ==
    {JoinLines(ls) : ls \in SeqsUpTo(DayLinePool, MaxLeadLines)} \cup
    {JoinLines(<<HeaderText(Header1)>> \o ls) : ls \in SeqsUpTo(DayLinePool, MaxDayLines)}

\* texts of one header and up to MaxActs records, the times in any order
TimeInputs ==
    {JoinLines(<<HeaderText(Header1)>> \o ls) :
        ls \in SeqsUpTo(TimeLinePool, MaxActs)}

\* texts of up to MaxSleepDays headers, the dates in any order
SleepInputs ==
    {JoinLines(ls) : ls \in SeqsUpTo({HeaderText(h) : h \in SleepHeaderPool}, MaxSleepDays)}

InitVars(text) ==
    /\ file_content = text
    /\ pc = "split"
    /\ lines = <<>>
    /\ idx = 0
    /\ current_day = None
    /\ days_data = <<>>
    /\ activities_data = <<>>
    /\ sleep_data = <<>>
    /\ filtered_df = <<>>
    /\ prev = None

Init == \E text \in Inputs : InitVars(text)

InitDays == \E text \in DayInputs : InitVars(text)

InitTimes == \E text \in TimeInputs : InitVars(text)

InitSleep == \E text \in SleepInputs : InitVars(text)

Spec == Init /\ [][Next]_vars

SpecDays == InitDays /\ [][Next]_vars

SpecTimes == InitTimes /\ [][Next]_vars

SpecSleep == InitSleep /\ [][Next]_vars

Returned == pc \in {"returned", "filtered"}

Derived == pc \in {"emit", "sleep", "returned", "filtered"}

(* ---------------------------------------------------------------------- *)
(* Reference values of the input texts, written out by hand               *)
(* ---------------------------------------------------------------------- *)

\* the minutes since midnight of a time that passes the HHMM range check, None
\* for a time that fails it
HHMM(t) ==
    CASE t = <<"0", "0", "0", "0">> -> Some(0)
      [] t = <<"0", "0", "1", "5">> -> Some(15)
      [] t = <<"0", "0", "3", "0">> -> Some(30)
      [] t = <<"0", "1", "0", "0">> -> Some(60)
      [] t = <<"0", "6", "0", "0">> -> Some(360)
      [] t = <<"0", "7", "0", "0">> -> Some(420)
      [] t = <<"2", "2", "0", "0">> -> Some(1320)
      [] t = <<"2", "3", "0", "0">> -> Some(1380)
      [] t = <<"2", "3", "3", "0">> -> Some(1410)
      [] t = <<"2", "3", "5", "9">> -> Some(1439)
      [] t = <<"2", "5", "7", "5">> -> None
      [] t = <<"2", "2", "6", "0">> -> None

\* the activities of Day k
Acts(k) == days_data[k].activities

(* ---------------------------------------------------------------------- *)
(* C1                                                                     *)
(* ---------------------------------------------------------------------- *)

\* C1: for every Day and every chronological position i except the last, when
\* time[i] and time[i+1] both pass the HHMM range check, duration_minutes[i] is
\* minutes(time[i+1]) - minutes(time[i]) if that is not negative and
\* minutes(time[i+1]) + 1440 - minutes(time[i]) otherwise; 2330 followed by
\* 0015 yields 45.
C1_DurationRule ==
    Derived =>
        \A k \in 1..Len(days_data) : \A i \in 1..(Len(Acts(k)) - 1) :
            LET a == HHMM(Acts(k)[i].time)
                b == HHMM(Acts(k)[i + 1].time)
            IN  /\ (a # None /\ b # None) =>
                       Acts(k)[i].duration_minutes =
                           IF b[1] >= a[1] THEN Some(b[1] - a[1])
                           ELSE Some(b[1] + 1440 - a[1])
                /\ (Acts(k)[i].time = <<"2", "3", "3", "0">> /\ Acts(k)[i + 1].time = <<"0", "0", "1", "5">>) =>
                       Acts(k)[i].duration_minutes = Some(45)

\* a Day in which 2330 is followed chronologically by 0015 and lasts 45 minutes
C1_Witness ==
    /\ Derived
    /\ \E k \in 1..Len(days_data) : \E i \in 1..(Len(Acts(k)) - 1) :
           /\ Acts(k)[i].time = <<"2", "3", "3", "0">>
           /\ Acts(k)[i + 1].time = <<"0", "0", "1", "5">>
           /\ Acts(k)[i].duration_minutes = Some(45)

(* ---------------------------------------------------------------------- *)
(* C4                                                                     *)
(* ---------------------------------------------------------------------- *)

\* C4: every derived activity with a non-null duration has
\* 0 <= duration_minutes <= 1439, also when the records of a Day are not
\* written in reverse-chronological order; the same holds of every emitted row.
C4_DurationRange ==
    /\ Derived =>
           \A k \in 1..Len(days_data) : \A i \in 1..Len(Acts(k)) :
               Acts(k)[i].duration_minutes # None =>
                   Acts(k)[i].duration_minutes[1] \in 0..1439
    /\ \A j \in 1..Len(activities_data) :
           activities_data[j].duration_minutes # None =>
               activities_data[j].duration_minutes[1] \in 0..1439

\* a Day whose records are out of order: a chronological successor with an
\* earlier time of day, and a duration all the same
C4_Witness ==
    /\ Derived
    /\ \E k \in 1..Len(days_data) : \E i \in 1..(Len(Acts(k)) - 1) :
           /\ HHMM(Acts(k)[i].time) # None
           /\ HHMM(Acts(k)[i + 1].time) # None
           /\ HHMM(Acts(k)[i + 1].time)[1] < HHMM(Acts(k)[i].time)[1]
           /\ Acts(k)[i].duration_minutes # None

\* the header lines and record lines of the input texts, with their fields
AllHeaders == HeaderPool \cup SleepHeaderPool

AllRecords ==
    ActivityPool \cup DayActivityPool \cup {A(t, <<"P">>, <<"h", "w">>) : t \in TimePool}

HeaderTexts == {HeaderText(h) : h \in AllHeaders}

RecordTexts == {ActivityText(a) : a \in AllRecords}

HeaderByText == [t \in HeaderTexts |-> CHOOSE h \in AllHeaders : HeaderText(h) = t]

RecordByText == [t \in RecordTexts |-> CHOOSE a \in AllRecords : ActivityText(a) = t]

IsHeaderLine(l) == l \in HeaderTexts

HeaderOf(l) == HeaderByText[l]

IsRecordLine(l) == l \in RecordTexts

RecordOf(l) == RecordByText[l]

\* the j-th smallest element of a set of numbers
Nth(S, j) == CHOOSE x \in S : Cardinality({y \in S : y < x}) = j - 1

\* the positions in lines of the header lines
HeaderLines == {i \in 1..Len(lines) : IsHeaderLine(lines[i])}

\* the position of the k-th header line, for every k
HeaderIdxs ==
    LET hl == HeaderLines IN [k \in 1..Cardinality(hl) |-> Nth(hl, k)]

\* for every k, the positions of the record lines between the k-th header line
\* and the next header line or the end of the text
Blocks ==
    LET hx == HeaderIdxs
        n  == Len(hx)
    IN  [k \in 1..n |->
            {i \in (hx[k] + 1)..(IF k < n THEN hx[k + 1] - 1 ELSE Len(lines)) :
                IsRecordLine(lines[i])}]

\* the header fields of a Day or of a row
HeaderFields(r) == H(r.date, r.day_of_week, r.start_time, r.end_time)

\* the spellings that equal "lo" case-insensitively
LoSpellings == {<<"l", "o">>, <<"L", "o">>, <<"l", "O">>, <<"L", "O">>}

\* the derived activities the exclusion policy keeps, as pairs <<Day, position>>
KeptPairs ==
    {p \in UNION {{<<k, i>> : i \in 1..Len(Acts(k))} : k \in 1..Len(days_data)} :
        /\ Acts(p[1])[p[2]].description \notin LoSpellings
        /\ Acts(p[1])[p[2]].duration_minutes # None
        /\ Acts(p[1])[p[2]].duration_minutes # Some(0)}

\* the j-th pair of a set of pairs ordered by Day and then by position
NthPair(S, j) ==
    CHOOSE p \in S :
        Cardinality({q \in S : q[1] < p[1] \/ (q[1] = p[1] /\ q[2] < p[2])}) = j - 1

(* ---------------------------------------------------------------------- *)
(* C2                                                                     *)
(* ---------------------------------------------------------------------- *)

\* C2: after derivation, each Day's activity sequence is exactly the reverse of
\* the file order of the record lines accepted into that Day: as many
\* activities as record lines in the Day's block, and the activity at
\* chronological position i is the record line that is i-th from the end.
C2_Reversal ==
    Derived =>
        LET blocks == Blocks IN
        \A k \in 1..Len(days_data) :
            /\ k <= Len(blocks)
            /\ Len(Acts(k)) = Cardinality(blocks[k])
            /\ \A i \in 1..Len(Acts(k)) :
                   LET a == RecordOf(lines[Nth(blocks[k], Len(Acts(k)) + 1 - i)])
                   IN  /\ Acts(k)[i].time = a.time
                       /\ Acts(k)[i].category = a.category
                       /\ Acts(k)[i].description = a.description

\* a Day of three records whose first and last differ
C2_Witness ==
    /\ Derived
    /\ \E k \in 1..Len(days_data) :
           /\ Len(Acts(k)) >= 3
           /\ Acts(k)[1].time # Acts(k)[Len(Acts(k))].time
           /\ Acts(k)[1].time = RecordOf(lines[Nth(Blocks[k], Len(Acts(k)))]).time

(* ---------------------------------------------------------------------- *)
(* C9                                                                     *)
(* ---------------------------------------------------------------------- *)

\* C9: the Day sequence has exactly one Day per header line, in file order,
\* each with that header's date, weekday, start_time and end_time.  While the
\* lines are read, the Days of all header lines read so far but the last are
\* closed and the Day of the last one is open; at the end of input the open Day
\* is emitted too, with or without activity records.
C9_OneDayPerHeader ==
    /\ pc = "parse" =>
           LET hx == HeaderIdxs
               c  == Cardinality({k \in 1..Len(hx) : hx[k] < idx})
           IN  /\ Len(days_data) = IF c = 0 THEN 0 ELSE c - 1
               /\ (current_day # None) <=> (c >= 1)
               /\ c >= 1 => HeaderFields(current_day[1]) = HeaderOf(lines[hx[c]])
               /\ \A k \in 1..Len(days_data) :
                      HeaderFields(days_data[k]) = HeaderOf(lines[hx[k]])
    /\ pc \notin {"split", "parse"} =>
           LET hx == HeaderIdxs
           IN  /\ Len(days_data) = Len(hx)
               /\ \A k \in 1..Len(days_data) :
                      HeaderFields(days_data[k]) = HeaderOf(lines[hx[k]])

\* the input ends with a header line: its Day is emitted with no activities,
\* behind a Day that a header closed
C9_Witness ==
    /\ pc = "derive"
    /\ Len(days_data) >= 2
    /\ IsHeaderLine(lines[Len(lines)])
    /\ days_data[Len(days_data)].activities = <<>>
    /\ days_data[1].activities # <<>>
    /\ HeaderFields(days_data[1]) # HeaderFields(days_data[Len(days_data)])

(* ---------------------------------------------------------------------- *)
(* C10                                                                    *)
(* ---------------------------------------------------------------------- *)

\* C10: every accepted record is attached to the Day of the nearest preceding
\* header line and to no other: a Day's activity count is the number of record
\* lines between its header and the next header or the end of input (a
\* malformed line in between is not counted), also while the lines are read; and
\* every emitted row carries the date, weekday, start_time and end_time of the
\* Day that owns its activity.
C10_Ownership ==
    /\ pc = "parse" =>
           LET blocks == Blocks
           IN  /\ \A k \in 1..Len(days_data) :
                      Len(days_data[k].activities) = Cardinality(blocks[k])
               /\ current_day # None =>
                      Len(current_day[1].activities) =
                          Cardinality({i \in blocks[Len(days_data) + 1] : i < idx})
    /\ pc \notin {"split", "parse"} =>
           LET blocks == Blocks
           IN  \A k \in 1..Len(days_data) :
                   Len(days_data[k].activities) = Cardinality(blocks[k])
    /\ Returned =>
           LET hx   == HeaderIdxs
               kept == KeptPairs
           IN  /\ Len(activities_data) = Cardinality(kept)
               /\ \A j \in 1..Len(activities_data) :
                      LET k == NthPair(kept, j)[1]
                      IN  /\ HeaderFields(activities_data[j]) = HeaderFields(days_data[k])
                          /\ HeaderFields(activities_data[j]) = HeaderOf(lines[hx[k]])

\* two Days of different headers and activity counts, a malformed line between
\* the records of a Day, and an emitted row
C10_Witness ==
    /\ Returned
    /\ Len(days_data) = 2
    /\ HeaderFields(days_data[1]) # HeaderFields(days_data[2])
    /\ Len(Acts(1)) # Len(Acts(2))
    /\ \E i \in 1..Len(lines) :
           /\ lines[i] = Junk
           /\ \E k \in 1..2 : \E a, b \in Blocks[k] : a < i /\ i < b
    /\ Len(activities_data) >= 1

(* ---------------------------------------------------------------------- *)
(* C6                                                                     *)
(* ---------------------------------------------------------------------- *)

\* C6: the flat activity table holds exactly the derived activities whose
\* description is not "lo" (case-insensitive) and whose duration_minutes is
\* neither null nor 0, each once, in the order of the Days in the file and
\* chronological within a Day.
C6_ExactTable ==
    Returned =>
        LET kept == KeptPairs IN
        /\ Len(activities_data) = Cardinality(kept)
        /\ \A j \in 1..Len(activities_data) :
               LET p   == NthPair(kept, j)
                   day == days_data[p[1]]
                   act == Acts(p[1])[p[2]]
                   row == activities_data[j]
               IN  /\ row.date = day.date
                   /\ row.activity_time = act.time
                   /\ row.category = act.category
                   /\ row.description = act.description
                   /\ row.duration_minutes = act.duration_minutes
                   /\ row.duration_hours = act.duration_hours

\* two Days of different dates that each contribute a row
C6_Witness ==
    /\ Returned
    /\ Len(activities_data) >= 2
    /\ activities_data[1].date = days_data[1].date
    /\ activities_data[1].date # activities_data[Len(activities_data)].date
    /\ \E k \in 1..Len(days_data) : \E i \in 1..Len(Acts(k)) :
           Acts(k)[i].description \in LoSpellings

(* ---------------------------------------------------------------------- *)
(* C3                                                                     *)
(* ---------------------------------------------------------------------- *)

\* C3: for every Day with at least one activity record, the last chronological
\* activity has duration_minutes null and duration_hours 0, whatever its
\* description or category, and it is not in the flat activity table: every
\* row has a duration, and the table has at most as many rows as there are
\* activities that are not the last of their Day.
C3_LastHasNoDuration ==
    /\ Derived =>
           \A k \in 1..Len(days_data) :
               Len(Acts(k)) >= 1 =>
                   /\ Acts(k)[Len(Acts(k))].duration_minutes = None
                   /\ Acts(k)[Len(Acts(k))].duration_hours[1] = 0
    /\ Returned =>
           /\ \A j \in 1..Len(activities_data) :
                  activities_data[j].duration_minutes # None
           /\ Len(activities_data) <=
                  Cardinality(UNION {{<<k, i>> : i \in 1..(Len(Acts(k)) - 1)} :
                                        k \in 1..Len(days_data)})

\* a Day of three records whose last chronological activity is no lights-out
\* marker: its category is P, its description hw, and it follows an hour of
\* lights out
C3_Witness ==
    /\ Returned
    /\ \E k \in 1..Len(days_data) :
           /\ Len(Acts(k)) = 3
           /\ Acts(k)[3].category = <<"P">>
           /\ Acts(k)[3].description = <<"h", "w">>
           /\ Acts(k)[2].description = <<"l", "o">>
           /\ Acts(k)[3].duration_minutes = None
           /\ Acts(k)[1].duration_minutes # None

(* ---------------------------------------------------------------------- *)
(* C5                                                                     *)
(* ---------------------------------------------------------------------- *)

\* C5: no row of the flat activity table has a description that equals "lo"
\* case-insensitively, wherever the record stands in its Day and whatever its
\* duration.
C5_NoLoRow ==
    \A j \in 1..Len(activities_data) :
        activities_data[j].description \notin LoSpellings

\* a record "Lo" that is not the last of its Day and has a duration other than
\* 0: only its description keeps it out of the table
C5_Witness ==
    /\ Returned
    /\ \E k \in 1..Len(days_data) : \E i \in 1..(Len(Acts(k)) - 1) :
           /\ Acts(k)[i].description = <<"L", "o">>
           /\ Acts(k)[i].duration_minutes # None
           /\ Acts(k)[i].duration_minutes # Some(0)
    /\ Len(activities_data) >= 1

(* ---------------------------------------------------------------------- *)
(* C7                                                                     *)
(* ---------------------------------------------------------------------- *)

\* C7 as claimed: no row with category LO is in the flat activity table that
\* load_and_parse_data emits.
C7_NoLOCategoryRow ==
    \A j \in 1..Len(activities_data) :
        activities_data[j].category # <<"L", "O">>

\* C7 as amended: no row with category LO is in filtered_df, the table main
\* computes from the flat activity table and takes its statistics from; every
\* row of another category is kept, in order.  The flat activity table itself
\* holds the LO rows whose description is not "lo" and whose duration is
\* neither null nor 0.
C7_FilteredHasNoLO ==
    pc = "filtered" =>
        LET keep == {j \in 1..Len(activities_data) :
                        activities_data[j].category # <<"L", "O">>}
        IN  /\ \A j \in 1..Len(filtered_df) : filtered_df[j].category # <<"L", "O">>
            /\ Len(filtered_df) = Cardinality(keep)
            /\ \A j \in 1..Len(filtered_df) :
                   filtered_df[j] = activities_data[Nth(keep, j)]

\* main has filtered a flat activity table that held a row of category LO and
\* a row of another category
C7_Witness ==
    /\ pc = "filtered"
    /\ \E j \in 1..Len(activities_data) : activities_data[j].category = <<"L", "O">>
    /\ Len(filtered_df) >= 1
    /\ Len(filtered_df) < Len(activities_data)

(* ---------------------------------------------------------------------- *)
(* C8                                                                     *)
(* ---------------------------------------------------------------------- *)

\* the calendar date <<year, month, day>> of a header date, None when it is no
\* calendar date
CalDate(d) ==
    CASE d = <<"3", "/", "1", "4", "/", "2", "4">> -> Some(<<2024, 3, 14>>)
      [] d = <<"3", "/", "1", "3", "/", "2", "4">> -> Some(<<2024, 3, 13>>)
      [] d = <<"1", "2", "/", "3", "1", "/", "6", "7">> -> Some(<<1967, 12, 31>>)
      [] d = <<"2", "/", "3", "0", "/", "2", "4">> -> None

\* calendar date c, as a number that orders the dates
DayNumber(c) == c[1] * 10000 + c[2] * 100 + c[3]

\* the Days that have a calendar date, by their position in the file
DatedDays == {k \in 1..Len(days_data) : CalDate(days_data[k].date) # None}

\* Day j comes before Day k in ascending order of date, Days of one date in
\* file order
DateBefore(j, k) ==
    LET a == DayNumber(CalDate(days_data[j].date)[1])
        b == DayNumber(CalDate(days_data[k].date)[1])
    IN  a < b \/ (a = b /\ j < k)

\* the dated Days in ascending order of date
DateOrder ==
    LET D == DatedDays
    IN  [r \in 1..Cardinality(D) |->
            CHOOSE k \in D : Cardinality({j \in D : DateBefore(j, k)}) = r - 1]

\* the sleep minutes from an end time to a start time that both pass the check
SleepMinutes(end, start) ==
    IF HHMM(start)[1] < HHMM(end)[1]
    THEN HHMM(start)[1] + 1440 - HHMM(end)[1]
    ELSE HHMM(start)[1] - HHMM(end)[1]

\* C8: sleep derivation takes the Days with a calendar date in ascending order
\* of date, whatever the file order, and emits for each adjacent pair exactly
\* one interval when the end_time of the first and the start_time of the second
\* pass the HHMM check, of next.start - current.end minutes, plus 1440 when
\* next.start < current.end (2300 then 0600 is 420 minutes, 0100 then 0030 is
\* 1410); a pair with an invalid boundary time emits nothing and leaves the
\* other pairs as they are.
C8_SleepIntervals ==
    Returned =>
        LET order == DateOrder
            valid == {r \in 1..(Len(order) - 1) :
                         /\ HHMM(days_data[order[r]].end_time) # None
                         /\ HHMM(days_data[order[r + 1]].start_time) # None}
        IN  /\ Len(sleep_data) = Cardinality(valid)
            /\ \A j \in 1..Len(sleep_data) :
                   LET r    == Nth(valid, j)
                       cur  == days_data[order[r]]
                       nxt  == days_data[order[r + 1]]
                       mins == SleepMinutes(cur.end_time, nxt.start_time)
                       h    == sleep_data[j].sleep_duration_hours
                   IN  /\ sleep_data[j].current_date = cur.date
                       /\ sleep_data[j].next_date = nxt.date
                       /\ h[1] * 60 = mins * h[2]
                       /\ (cur.end_time = <<"2", "3", "0", "0">> /\ nxt.start_time = <<"0", "6", "0", "0">>) =>
                              h[1] = 7 * h[2]
                       /\ (cur.end_time = <<"0", "1", "0", "0">> /\ nxt.start_time = <<"0", "0", "3", "0">>) =>
                              h[1] * 2 = 47 * h[2]

\* three dated Days that the file does not hold in order of date: the pair of
\* the two earliest has an end time of 2575 and gives no interval, the pair of
\* the two latest sleeps from 2300 to 0600, 7 hours
C8_Witness ==
    /\ Returned
    /\ Len(days_data) = 3
    /\ DatedDays = {1, 2, 3}
    /\ DateOrder = <<2, 3, 1>>
    /\ HHMM(days_data[2].end_time) = None
    /\ Len(sleep_data) = 1
    /\ sleep_data[1].current_date = days_data[3].date
    /\ sleep_data[1].next_date = days_data[1].date
    /\ sleep_data[1].sleep_duration_hours = <<420, 60>>

(* ---------------------------------------------------------------------- *)
(* Whole calls: the result of the call in progress, and edits of a text   *)
(* ---------------------------------------------------------------------- *)
Finished == pc \in {"returned", "filtered", "raised"}

\* what the call in progress has returned, in the shape of load_and_parse_data
Result ==
    IF pc = "raised"
    THEN [status |-> "raised", days_data |-> <<>>,
          activities_data |-> <<>>, sleep_data |-> <<>>]
    ELSE [status          |-> "returned",
          days_data       |-> days_data,
          activities_data |-> activities_data,
          sleep_data      |-> sleep_data]

\* the lines ls without line i
RemoveAt(ls, i) == SubSeq(ls, 1, i - 1) \o SubSeq(ls, i + 1, Len(ls))

\* the lines ls with l in the place of line i
ReplaceAt(ls, i, l) == [ls EXCEPT ![i] = l]

(* ---------------------------------------------------------------------- *)
(* Texts with malformed lines                                             *)
(* ---------------------------------------------------------------------- *)
MaxGarbleLines == 4

\* a line of three fields whose time field has two characters: 25 P hw
ShortTime == <<"2", "5", " ", "P", " ", "h", "w">>

\* Header2 with an end time of three digits: 3/13/24 W 0600-230
BadHeader == SubSeq(HeaderText(Header2), 1, Len(HeaderText(Header2)) - 1)

\* the lines that are neither a header nor an activity record
MalformedLines == {Junk, ShortTime, BadHeader}

GarbleLinePool ==
    {HeaderText(Header2)} \cup {ActivityText(a) : a \in DayActivityPool}
        \cup MalformedLines

\* texts of Header1 and up to MaxGarbleLines lines: records, a second header
\* and malformed lines
GarbleInputs ==
    {JoinLines(<<HeaderText(Header1)>> \o ls) :
        ls \in SeqsUpTo(GarbleLinePool, MaxGarbleLines)}

InitGarble == \E text \in GarbleInputs : InitVars(text)

SpecGarble == InitGarble /\ [][Next]_vars

\* C11: a malformed line inside a Day block does not abort the parse and does
\* not change any Day: the call ends as it ends on the text without that line,
\* with the same Days (header fields, activity lists, durations), the same
\* rows and the same sleep intervals.
C11_MalformedLineIsInert ==
    Finished =>
        \A i \in 1..Len(lines) :
            /\ lines[i] \in MalformedLines
            /\ \E j \in 1..(i - 1) : IsHeaderLine(lines[j])
            => Result = load_and_parse_data(JoinLines(RemoveAt(lines, i)))

\* a returned call on two Days, the first with a malformed line of three
\* fields between two records and with an emitted row
C11_Witness ==
    /\ pc = "returned"
    /\ Len(days_data) = 2
    /\ Len(activities_data) >= 1
    /\ \E i \in 3..(Len(lines) - 2) :
          /\ lines[i] = ShortTime
          /\ IsRecordLine(lines[i - 1])
          /\ IsRecordLine(lines[i + 1])
          /\ IsHeaderLine(lines[i + 2])

\* the number of header lines among the first n lines of ls
HeadersBefore(ls, n) == Cardinality({j \in 1..n : IsHeaderLine(ls[j])})

\* C12: a header line with an end time of three digits is skipped without
\* corrupting the Day before it: that Day has the activity list, the
\* durations and the rows it has when the header line is well-formed.
C12_BadHeaderKeepsPrecedingDay ==
    Finished =>
        \A i \in 1..Len(lines) :
            /\ lines[i] = BadHeader
            /\ HeadersBefore(lines, i - 1) >= 1
            => LET k == HeadersBefore(lines, i - 1)
                   wellFormed ==
                       load_and_parse_data(
                           JoinLines(ReplaceAt(lines, i, HeaderText(Header2))))
               IN  /\ Result.status = wellFormed.status
                   /\ Result.status = "returned" =>
                         /\ days_data[k].activities = wellFormed.days_data[k].activities
                         /\ DayRows(days_data[k]) = DayRows(wellFormed.days_data[k])

(* ---------------------------------------------------------------------- *)
(* Texts with garbled activity lines                                      *)
(* ---------------------------------------------------------------------- *)
MaxInvalidLines == 4

\* the valid records a garbled line stands in for
ValidRecordLines ==
    {ActivityText(A(<<"2", "3", "3", "0">>, <<"L", "O">>, <<"l", "o">>)),
     ActivityText(A(<<"2", "2", "0", "0">>, <<"P">>, <<"h", "w">>)),
     ActivityText(A(<<"0", "0", "1", "5">>, <<"S">>, <<"L", "o">>))}

\* garbled lines: a rejected line, a record with an hour of 25, and a record
\* whose time has a digit that is not decimal
GarbledLines ==
    {ShortTime,
     ActivityText(A(<<"2", "5", "7", "5">>, <<"X">>, <<"h", "w">>)),
     ActivityText(A(<<"1", "2", SUP3, "4">>, <<"P">>, <<"h", "w">>))}

\* texts of Header1 and up to MaxInvalidLines lines, valid or garbled
InvalidInputs ==
    {JoinLines(<<HeaderText(Header1)>> \o ls) :
        ls \in SeqsUpTo(ValidRecordLines \cup GarbledLines, MaxInvalidLines)}

InitInvalid == \E text \in InvalidInputs : InitVars(text)

SpecInvalid == InitInvalid /\ [][Next]_vars

\* the chronological position, in its Day, of the record of line j of ls
ChronPos(ls, j) ==
    1 + Cardinality({m \in (j + 1)..Len(ls) :
                        /\ IsRecordLine(ls[m])
                        /\ HeadersBefore(ls, m) = HeadersBefore(ls, j)})

\* the duration, in the result res of the text of lines ls, of the record of
\* line j
DurationOfLine(ls, res, j) ==
    res.days_data[HeadersBefore(ls, j)].activities[ChronPos(ls, j)].duration_minutes

\* the record lines of ls after line i in the Day of line i
LaterRecords(ls, i) ==
    {m \in (i + 1)..Len(ls) :
        /\ IsRecordLine(ls[m])
        /\ HeadersBefore(ls, m) = HeadersBefore(ls, i)}

\* the line of the chronological predecessor of line i: the first record line
\* after it in its Day
IsPredecessor(ls, i, j) ==
    /\ j \in LaterRecords(ls, i)
    /\ \A m \in LaterRecords(ls, i) : j <= m

\* C13: a garbled activity line degrades only that line's data: with a garbled
\* line in the place of a valid record, the call still returns and every other
\* record has the duration, and so the row, it has with the valid record.  The
\* chronological predecessor of the replaced line is left out of the
\* comparison: its duration is measured up to the replaced line's time, so the
\* records compared are those whose duration depends on neither.
C13_GarbleIsLocal ==
    Finished =>
        \A i \in 1..Len(lines) : \A v \in ValidRecordLines :
            /\ lines[i] \in GarbledLines
            /\ HeadersBefore(lines, i) >= 1
            => LET valid == ReplaceAt(lines, i, v)
                   whole == load_and_parse_data(JoinLines(valid))
               IN  whole.status = "returned" =>
                     /\ Result.status = "returned"
                     /\ \A j \in 1..Len(lines) :
                           /\ j # i
                           /\ IsRecordLine(lines[j])
                           /\ HeadersBefore(lines, j) >= 1
                           /\ ~IsPredecessor(lines, i, j)
                           => DurationOfLine(lines, Result, j)
                                = DurationOfLine(valid, whole, j)

(* ---------------------------------------------------------------------- *)
(* Texts of Days with and without a calendar date                         *)
(* ---------------------------------------------------------------------- *)
MaxDateDays == 3

\* header dates that are no calendar date: month 13, and day 0
NoCalendarDates ==
    {<<"1", "3", "/", "1", "/", "2", "4">>, <<"3", "/", "0", "/", "2", "4">>}

CalendarDates ==
    {<<"3", "/", "1", "4", "/", "2", "4">>, <<"3", "/", "1", "3", "/", "2", "4">>}

\* the header <date> M 0600-2300
DateHeader(d) ==
    HeaderText(H(d, <<"M">>, <<"0", "6", "0", "0">>, <<"2", "3", "0", "0">>))

DateHeaderTexts == {DateHeader(d) : d \in CalendarDates \cup NoCalendarDates}

UndatedHeaderTexts == {DateHeader(d) : d \in NoCalendarDates}

\* the record lines of a Day: none, or 2330 LO lo and 2200 P hw
DateBodies ==
    {<<>>,
     <<ActivityText(A(<<"2", "3", "3", "0">>, <<"L", "O">>, <<"l", "o">>)),
       ActivityText(A(<<"2", "2", "0", "0">>, <<"P">>, <<"h", "w">>))>>}

\* a Day block: a header line and the record lines of the Day
DateBlocks == {<<h>> \o b : h \in DateHeaderTexts, b \in DateBodies}

RECURSIVE Flatten(_)
\* the lines of a sequence of blocks
Flatten(bs) ==
    IF bs = <<>> THEN <<>>
    ELSE Flatten(SubSeq(bs, 1, Len(bs) - 1)) \o bs[Len(bs)]

\* texts of up to MaxDateDays Day blocks
DateInputs == {JoinLines(Flatten(bs)) : bs \in SeqsUpTo(DateBlocks, MaxDateDays)}

InitDates == \E text \in DateInputs : InitVars(text)

SpecDates == InitDates /\ [][Next]_vars

\* line m of ls is in the block of a header without a calendar date
InUndatedDay(ls, m) ==
    \E j \in 1..m :
        /\ ls[j] \in UndatedHeaderTexts
        /\ \A n \in (j + 1)..m : ls[n] \notin DateHeaderTexts

RECURSIVE DropUndated(_, _)
\* the first n lines of ls without the blocks of the Days that have no
\* calendar date
DropUndated(ls, n) ==
    IF n = 0 THEN <<>>
    ELSE DropUndated(ls, n - 1) \o
         (IF InUndatedDay(ls, n) THEN <<>> ELSE <<ls[n]>>)

\* the lines ls with the date 3/14/24 in every header without a calendar date
Redated(ls) ==
    [m \in 1..Len(ls) |->
        IF ls[m] \in UndatedHeaderTexts
        THEN DateHeader(<<"3", "/", "1", "4", "/", "2", "4">>)
        ELSE ls[m]]

\* C14: a Day whose header date is no calendar date (month 13, day 0) has no
\* parsed date and is retained: it has the activities and durations, and the
\* text the rows, that it has with a calendar date in that header; no sleep
\* interval names it, and the sleep intervals are those of the text without
\* the blocks of such Days.
C14_UndatedDay ==
    Returned =>
        LET redated == load_and_parse_data(JoinLines(Redated(lines)))
            absent  == load_and_parse_data(JoinLines(DropUndated(lines, Len(lines))))
        IN  /\ Len(days_data) = Len(redated.days_data)
            /\ \A k \in 1..Len(days_data) :
                   days_data[k].date \in NoCalendarDates =>
                       /\ days_data[k].parsed_date = None
                       /\ Acts(k) = redated.days_data[k].activities
            /\ Len(activities_data) = Len(redated.activities_data)
            /\ \A j \in 1..Len(activities_data) :
                   LET r == activities_data[j]
                       q == redated.activities_data[j]
                   IN  /\ r.activity_time = q.activity_time
                       /\ r.category = q.category
                       /\ r.description = q.description
                       /\ r.duration_minutes = q.duration_minutes
                       /\ r.date \in NoCalendarDates => r.parsed_date = None
            /\ \A j \in 1..Len(sleep_data) :
                   /\ sleep_data[j].current_date \notin NoCalendarDates
                   /\ sleep_data[j].next_date \notin NoCalendarDates
            /\ sleep_data = absent.sleep_data

\* three Days, the second with month 13, two activities and a row, between
\* two dated Days that give one sleep interval
C14_Witness ==
    /\ Returned
    /\ Len(days_data) = 3
    /\ days_data[2].date = <<"1", "3", "/", "1", "/", "2", "4">>
    /\ days_data[2].parsed_date = None
    /\ Len(Acts(2)) = 2
    /\ Acts(2)[1].duration_minutes = Some(90)
    /\ \E j \in 1..Len(activities_data) : activities_data[j].date = days_data[2].date
    /\ days_data[1].parsed_date # None
    /\ days_data[3].parsed_date # None
    /\ days_data[1].date # days_data[3].date
    /\ Len(sleep_data) = 1

(* ---------------------------------------------------------------------- *)
(* Texts with every category code                                         *)
(* ---------------------------------------------------------------------- *)
MaxCatActs == 2

\* the codes of the category table
KnownCodes ==
    {<<"P">>, <<"R">>, <<"E">>, <<"S">>, <<"W">>, <<"F">>, <<"G", "O", "D">>, <<"L", "O">>}

\* codes that the table does not hold: another letter, and a known letter in
\* lower case
UnknownCodes == {<<"X">>, <<"p">>}

\* the display names, as the category table of section 4.3 gives them
DisplayName ==
    [c \in KnownCodes |->
        CASE c = <<"P">> -> "Productive"
          [] c = <<"R">> -> "Routine"
          [] c = <<"E">> -> "Eat"
          [] c = <<"S">> -> "Social"
          [] c = <<"W">> -> "Workout"
          [] c = <<"F">> -> "Fun"
          [] c = <<"G", "O", "D">> -> "God"
          [] c = <<"L", "O">> -> "Sleep"]

\* records of every code at 2100 and at 2200
CatLinePool ==
    {ActivityText(A(t, c, <<"h", "w">>)) :
        t \in {<<"2", "1", "0", "0">>, <<"2", "2", "0", "0">>},
        c \in KnownCodes \cup UnknownCodes}

\* texts of Header1, the lights-out marker at 2330 and up to MaxCatActs
\* records before it in time
CatInputs ==
    {JoinLines(<<HeaderText(Header1),
                 ActivityText(A(<<"2", "3", "3", "0">>, <<"L", "O">>, <<"l", "o">>))>> \o ls) :
        ls \in SeqsUpTo(CatLinePool, MaxCatActs)}

InitCats == \E text \in CatInputs : InitVars(text)

SpecCats == InitCats /\ [][Next]_vars

\* C15: the category_name of every row is the table's name of its code, for
\* exactly the codes P, R, E, S, W, F, GOD and LO, and "Unknown" for every
\* other code; a code outside the table neither fails the parse nor drops a
\* row: there is one row per activity that the exclusion policy keeps.
C15_CategoryName ==
    /\ pc # "raised"
    /\ Returned =>
        /\ \A j \in 1..Len(activities_data) :
               LET r == activities_data[j]
               IN  IF r.category \in KnownCodes
                   THEN r.category_name = DisplayName[r.category]
                   ELSE r.category_name = "Unknown"
        /\ Len(activities_data) = Cardinality(KeptPairs)
        /\ \A j \in 1..Len(activities_data) :
               LET p == NthPair(KeptPairs, j)
               IN  activities_data[j].category = Acts(p[1])[p[2]].category

\* a row of the code X, whose name is Unknown
C15_Witness ==
    /\ Returned
    /\ \E j \in 1..Len(activities_data) :
           /\ activities_data[j].category = <<"X">>
           /\ activities_data[j].category_name = "Unknown"

\* a row of the code GOD, of three letters, and one of a code in lower case
C15_WitnessGod ==
    /\ Returned
    /\ \E j \in 1..Len(activities_data) :
           /\ activities_data[j].category = <<"G", "O", "D">>
           /\ activities_data[j].category_name = "God"
    /\ \E j \in 1..Len(activities_data) :
           /\ activities_data[j].category = <<"p">>
           /\ activities_data[j].category_name = "Unknown"

(* ---------------------------------------------------------------------- *)
(* Texts with header dates on both sides of the year pivot                *)
(* ---------------------------------------------------------------------- *)
MaxYearDays == 2

DigitChar == <<"0", "1", "2", "3", "4", "5", "6", "7", "8", "9">>

\* a number below 100 written with two digits, and with as few as it takes
TwoDigits(n) == <<DigitChar[(n \div 10) + 1], DigitChar[(n % 10) + 1]>>

Digits(n) == IF n < 10 THEN <<DigitChar[n + 1]>> ELSE TwoDigits(n)

\* the date M/D/YY of month m, day d and two-digit year yy
DateText(m, d, yy) == Digits(m) \o <<"/">> \o Digits(d) \o <<"/">> \o TwoDigits(yy)

\* two-digit years at the ends of the range, next to the pivot of 50, and
\* next to 69
YearPool == {0, 24, 49, 50, 67, 68, 69, 99}

\* 14 March, and 29 February, which only a leap year has
MonthDayPool == {<<3, 14>>, <<2, 29>>}

\* the two-digit years of the pool whose year is a leap year: 2000,
\* 2024 and 1968
LeapYearPool == {0, 24, 68}

\* month m, day d of the two-digit year yy is a calendar date
IsCalendarDate(m, d, yy) == <<m, d>> # <<2, 29>> \/ yy \in LeapYearPool

YearHeaderPool ==
    {DateHeader(DateText(md[1], md[2], yy)) : md \in MonthDayPool, yy \in YearPool}

\* texts of up to MaxYearDays headers
YearInputs == {JoinLines(ls) : ls \in SeqsUpTo(YearHeaderPool, MaxYearDays)}

InitYears == \E text \in YearInputs : InitVars(text)

SpecYears == InitYears /\ [][Next]_vars

\* C16: a header date M/D/YY that is a calendar date is parsed to month M,
\* day D and the year 2000 + YY when YY < 50, 1900 + YY otherwise: 3/14/24 is
\* 14 March 2024 and 3/14/67 is 14 March 1967.
C16_YearPivot ==
    Derived =>
        \A k \in 1..Len(days_data) :
            /\ \A md \in MonthDayPool : \A yy \in YearPool :
                   /\ days_data[k].date = DateText(md[1], md[2], yy)
                   /\ IsCalendarDate(md[1], md[2], yy)
                   => days_data[k].parsed_date =
                          Some([year  |-> IF yy < 50 THEN 2000 + yy ELSE 1900 + yy,
                                month |-> md[1],
                                day   |-> md[2]])
            /\ days_data[k].date = <<"3", "/", "1", "4", "/", "2", "4">> =>
                   days_data[k].parsed_date = Some([year |-> 2024, month |-> 3, day |-> 14])
            /\ days_data[k].date = <<"3", "/", "1", "4", "/", "6", "7">> =>
                   days_data[k].parsed_date = Some([year |-> 1967, month |-> 3, day |-> 14])

\* two derived Days on the two sides of the pivot: 3/14/49 of 2049 and
\* 2/29/68 of 1968
C16_Witness ==
    /\ Derived
    /\ Len(days_data) = 2
    /\ days_data[1].date = <<"3", "/", "1", "4", "/", "4", "9">>
    /\ days_data[1].parsed_date # None
    /\ days_data[1].parsed_date[1].year = 2049
    /\ days_data[2].date = <<"2", "/", "2", "9", "/", "6", "8">>
    /\ days_data[2].parsed_date # None
    /\ days_data[2].parsed_date[1].year = 1968

(* ---------------------------------------------------------------------- *)
(* Two calls on the same text                                             *)
(* ---------------------------------------------------------------------- *)

\* line 482: main calls load_and_parse_data again with the same text, once the
\* first call has returned or raised; prev keeps what the first call returned
Rerun ==
    /\ pc \in {"filtered", "raised"}
    /\ prev = None
    /\ prev' = Some(Result)
    /\ pc' = "split"
    /\ UNCHANGED <<file_content, lines, idx, current_day, days_data,
                   activities_data, sleep_data, filtered_df>>

NextTwice ==
    \/ Next
    \/ Rerun

\* the texts of Days with and without a date, and those with garbled lines
InitTwice == InitDates \/ InitInvalid

SpecTwice == InitTwice /\ [][NextTwice]_vars

\* C17: a second call on the same text ends as the first did, with the same
\* Days, rows and sleep intervals: the first call leaves nothing behind that
\* the second one reads.
C17_SecondCallSame == (prev # None /\ Finished) => Result = prev[1]

\* a second call that has returned three Days, a row and a sleep interval
C17_Witness ==
    /\ prev # None
    /\ pc = "returned"
    /\ Len(days_data) = 3
    /\ Len(activities_data) >= 1
    /\ Len(sleep_data) >= 1

\* a second call that has raised, as the first did
C17_WitnessRaised ==
    /\ prev # None
    /\ pc = "raised"
    /\ prev[1].status = "raised"

(* ---------------------------------------------------------------------- *)
(* Texts whose record fields are separated by runs of whitespace          *)
(* ---------------------------------------------------------------------- *)
MaxSepActs == 3

\* one space, two spaces, and a tab
Separators == {<<" ">>, <<" ", " ">>, <<"\t">>}

\* records of three fields; the description of the last one has a space
SepRecords ==
    {A(<<"2", "3", "3", "0">>, <<"L", "O">>, <<"l", "o">>),
     A(<<"2", "2", "0", "0">>, <<"P">>, <<"h", "w">>),
     A(<<"2", "1", "0", "0">>, <<"S">>, <<"a", " ", "b">>)}

\* the record line of the fields a, with sep between the fields
SepText(a, sep) == a.time \o sep \o a.category \o sep \o a.description

SepTexts == {SepText(a, sep) : a \in SepRecords, sep \in Separators}

\* the fields a record line was written from
SepByText ==
    [t \in SepTexts |-> CHOOSE a \in SepRecords : \E sep \in Separators : SepText(a, sep) = t]

\* texts of Header1 and up to MaxSepActs record lines
SepInputs ==
    {JoinLines(<<HeaderText(Header1)>> \o ls) : ls \in SeqsUpTo(SepTexts, MaxSepActs)}

InitSeps == \E text \in SepInputs : InitVars(text)

SpecSeps == InitSeps /\ [][Next]_vars

\* C18: a record line whose fields are separated by runs of whitespace, two
\* spaces or a tab, is parsed to the time, category and description of the
\* same fields separated by single spaces: after the parse loop the Day has
\* one activity per record line, in file order, with the fields the line was
\* written from.
C18_WhitespaceRuns ==
    pc = "derive" =>
        /\ Len(days_data) = 1
        /\ days_data[1].activities =
               [i \in 1..(Len(lines) - 1) |-> SepByText[lines[i + 1]]]

(* ---------------------------------------------------------------------- *)
(* Texts with lines before the first header                               *)
(* ---------------------------------------------------------------------- *)
MaxLeadRecs == 2

\* lines before the first header: two valid records, a record whose time has
\* a digit that is not decimal, and two lines that are no record
LeadLinePool ==
    {ActivityText(a) : a \in DayActivityPool}
        \cup {ActivityText(A(<<"1", "2", SUP3, "4">>, <<"P">>, <<"h", "w">>)), Junk, ShortTime}

\* the lines from the first header on: none, one Day, and two Days
LeadBodies ==
    LET lo == ActivityText(A(<<"2", "3", "3", "0">>, <<"L", "O">>, <<"l", "o">>))
        hw == ActivityText(A(<<"2", "2", "0", "0">>, <<"P">>, <<"h", "w">>))
    IN  {<<>>,
         <<HeaderText(Header1), lo, hw>>,
         <<HeaderText(Header1), lo, hw, HeaderText(Header2), hw>>}

\* texts of up to MaxLeadRecs lines before the first header
LeadInputs ==
    {JoinLines(ls \o b) : ls \in SeqsUpTo(LeadLinePool, MaxLeadRecs), b \in LeadBodies}

InitLead == \E text \in LeadInputs : InitVars(text)

SpecLead == InitLead /\ [][Next]_vars

\* the lines of ls from the first header line on
FromFirstHeader(ls) ==
    LET hs == {i \in 1..Len(ls) : IsHeaderLine(ls[i])}
    IN  IF hs = {} THEN <<>>
        ELSE SubSeq(ls, CHOOSE i \in hs : \A j \in hs : i <= j, Len(ls))

\* C19: the lines before the first header contribute nothing: the call ends as
\* it does on the text without them, with the same Days, rows and sleep
\* intervals, whether or not those lines are valid records.
C19_LinesBeforeFirstHeader ==
    Finished => Result = load_and_parse_data(JoinLines(FromFirstHeader(lines)))

\* a returned call on a text that starts with a record whose time would raise
\* and a valid record, before the header of the first of two Days
C19_Witness ==
    /\ pc = "returned"
    /\ Len(lines) >= 3
    /\ lines[1] = ActivityText(A(<<"1", "2", SUP3, "4">>, <<"P">>, <<"h", "w">>))
    /\ lines[2] = ActivityText(A(<<"2", "2", "0", "0">>, <<"P">>, <<"h", "w">>))
    /\ IsHeaderLine(lines[3])
    /\ Len(days_data) = 2
    /\ Len(activities_data) >= 1

(* ---------------------------------------------------------------------- *)
(* Texts with blank lines                                                 *)
(* ---------------------------------------------------------------------- *)
MaxBlanks == 2

\* an empty line, a line of two spaces, and a line of a tab
BlankLines == {<<>>, <<" ", " ">>, <<"\t">>}

\* the lines ls with l after the first p of them
InsertAt(ls, p, l) == SubSeq(ls, 1, p) \o <<l>> \o SubSeq(ls, p + 1, Len(ls))

RECURSIVE WithBlanks(_, _)
\* the sequences of lines that up to n insertions of a blank line, at any
\* place, make of those of S
WithBlanks(S, n) ==
    IF n = 0 THEN S
    ELSE LET T == WithBlanks(S, n - 1)
         IN  T \cup UNION {{InsertAt(ls, p, b) : p \in 0..Len(ls), b \in BlankLines} :
                              ls \in T}

\* texts of one Day and of two Days with up to MaxBlanks blank lines
BlankInputs ==
    {JoinLines(ls) : ls \in WithBlanks(LeadBodies \ {<<>>}, MaxBlanks)}

InitBlank == \E text \in BlankInputs : InitVars(text)

SpecBlank == InitBlank /\ [][Next]_vars

\* the lines of the text as it was given, before line 297 strips it
RawLines == split(file_content, "\n", -1)

\* C20: blank lines, empty or of whitespace only, are skipped wherever they
\* are: the call ends as it does on the text without any one of its blank
\* lines, and as on the text without all of them, with the same Days, rows
\* and sleep intervals.
C20_BlankLinesSkipped ==
    Finished =>
        LET raw == RawLines IN
        /\ \A i \in 1..Len(raw) :
               raw[i] \in BlankLines =>
                   Result = load_and_parse_data(JoinLines(RemoveAt(raw, i)))
        /\ Result = load_and_parse_data(
                        JoinLines(SelectSeq(raw, LAMBDA l : l \notin BlankLines)))

\* a returned call on two Days and a row, whose text has a line of a tab
\* right after a header and an empty line right before a record
C20_Witness ==
    /\ pc = "returned"
    /\ Len(days_data) = 2
    /\ Len(activities_data) >= 1
    /\ LET raw == RawLines IN
       /\ \E i \in 2..Len(raw) : raw[i] = <<"\t">> /\ IsHeaderLine(raw[i - 1])
       /\ \E i \in 1..(Len(raw) - 1) : raw[i] = <<>> /\ IsRecordLine(raw[i + 1])

(* ---------------------------------------------------------------------- *)
(* C22                                                                    *)
(* ---------------------------------------------------------------------- *)

\* C22: time_to_minutes never raises, and for every time the duration loop
\* passes to it, it returns HH*60+MM, a value in 0..1439, when the time is of
\* four digits with HH in 0..23 and MM in 0..59, and no timestamp otherwise.
C22_TimeToMinutesTotal ==
    /\ pc # "raised"
    /\ Derived =>
           \A k \in 1..Len(days_data) : \A i \in 1..(Len(Acts(k)) - 1) :
               \A t \in {Acts(k)[i].time, Acts(k)[i + 1].time} :
                   /\ time_to_minutes(t) = HHMM(t)
                   /\ HHMM(t) # None => HHMM(t)[1] \in 0..1439

(* ---------------------------------------------------------------------- *)
(* C21                                                                    *)
(* ---------------------------------------------------------------------- *)

\* the minutes from a time to the next one, both of which pass the range check
MinutesBetween(t, u) ==
    IF HHMM(u)[1] < HHMM(t)[1]
    THEN HHMM(u)[1] + 1440 - HHMM(t)[1]
    ELSE HHMM(u)[1] - HHMM(t)[1]

\* the durations of a derived Day are null where the claim says so, and depend
\* on the two times of their position only
NullDurations ==
    Derived =>
        \A k \in 1..Len(days_data) :
            /\ Len(Acts(k)) = Cardinality(Blocks[k])
            /\ \A i \in 1..(Len(Acts(k)) - 1) :
                   LET t == Acts(k)[i].time
                       u == Acts(k)[i + 1].time
                   IN  IF HHMM(t) = None \/ HHMM(u) = None
                       THEN /\ Acts(k)[i].duration_minutes = None
                            /\ Acts(k)[i].duration_hours = <<0, 1>>
                       ELSE Acts(k)[i].duration_minutes = Some(MinutesBetween(t, u))

\* C21: at a non-last chronological position the duration is null, and the
\* hours 0, exactly when the time of the position or the next time fails the
\* HHMM range check; a record with an invalid time stays in its Day, never
\* aborts the parse, and the duration of a position with two valid times is
\* that of its two times, whatever the other records are.
C21_InvalidTimeIsLocal ==
    /\ pc # "raised"
    /\ NullDurations

(* ---------------------------------------------------------------------- *)
(* Texts of lines that are and are not activity records                   *)
(* ---------------------------------------------------------------------- *)
MaxRecLines == 3

\* a line that holds a time and nothing else: 2100
TimeOnly == <<"2", "1", "0", "0">>

\* a time field of five digits: 23300 P hw
LongTime == <<"2", "3", "3", "0", "0", " ", "P", " ", "h", "w">>

\* a time field of four characters, two of them letters: ab30 P hw
LetterTime == <<"a", "b", "3", "0", " ", "P", " ", "h", "w">>

\* the lines with the record each is to be parsed to, fields separated by
\* single spaces: three fields, a description of several words, no
\* description, an hour of 25, and the lines that are no record
RecordTable ==
    {<<<<"2", "3", "3", "0", " ", "L", "O", " ", "l", "o">>,
       Some(A(<<"2", "3", "3", "0">>, <<"L", "O">>, <<"l", "o">>))>>,
     <<<<"2", "0", "0", "0", " ", "S", " ", "a", " ", "b", " ", "c">>,
       Some(A(<<"2", "0", "0", "0">>, <<"S">>, <<"a", " ", "b", " ", "c">>))>>,
     <<<<"2", "2", "0", "0", " ", "P">>,
       Some(A(<<"2", "2", "0", "0">>, <<"P">>, <<>>))>>,
     <<<<"2", "5", "7", "5", " ", "X", " ", "h", "w">>,
       Some(A(<<"2", "5", "7", "5">>, <<"X">>, <<"h", "w">>))>>,
     <<TimeOnly, None>>,
     <<ShortTime, None>>,
     <<LongTime, None>>,
     <<LetterTime, None>>}

RecLinePool == {e[1] : e \in RecordTable}

\* the record of a line of the table, or None
Expected(l) == (CHOOSE e \in RecordTable : e[1] = l)[2]

\* texts of Header1 and up to MaxRecLines lines of the table
RecInputs ==
    {JoinLines(<<HeaderText(Header1)>> \o ls) : ls \in SeqsUpTo(RecLinePool, MaxRecLines)}

InitRecs == \E text \in RecInputs : InitVars(text)

SpecRecs == InitRecs /\ [][Next]_vars

\* C23: inside an open Day a line is recorded as an activity exactly when it
\* has a time field and a category field and the time field is of four digit
\* characters, whatever its range (2575 is recorded); a missing description is
\* the empty string; a line of a time alone is rejected, and the call ends as
\* it does on the text without that line, so it bounds no duration.
C23_RecordAcceptance ==
    /\ pc = "derive" =>
           LET accepted == SelectSeq(Tail(lines), LAMBDA l : Expected(l) # None)
           IN  /\ Len(days_data) = 1
               /\ days_data[1].activities =
                      [i \in 1..Len(accepted) |-> Expected(accepted[i])[1]]
    /\ Finished =>
           \A i \in 2..Len(lines) :
               lines[i] = TimeOnly =>
                   Result = load_and_parse_data(JoinLines(RemoveAt(lines, i)))

\* after the parse loop, a Day of two activities, 2575 X hw and 2200 P with
\* the empty description, with the line 2100 between them in the text
C23_Witness ==
    /\ pc = "derive"
    /\ Len(lines) = 4
    /\ lines[3] = TimeOnly
    /\ Len(days_data) = 1
    /\ Len(days_data[1].activities) = 2
    /\ days_data[1].activities[1].time = <<"2", "5", "7", "5">>
    /\ days_data[1].activities[2].description = <<>>

(* ---------------------------------------------------------------------- *)
(* C24                                                                    *)
(* ---------------------------------------------------------------------- *)

\* the times of TimePool that pass the HHMM range check
RangeValidTimes ==
    {<<"0", "0", "0", "0">>, <<"0", "0", "1", "5">>, <<"2", "2", "0", "0">>,
     <<"2", "3", "3", "0">>, <<"2", "3", "5", "9">>}

RECURSIVE SumOfDurations(_, _)
\* the sum of the durations of the first n derived activities of acts
SumOfDurations(acts, n) ==
    IF n = 0 THEN 0
    ELSE SumOfDurations(acts, n - 1) + acts[n].duration_minutes[1]

\* the number of adjacent pairs of acts whose second time is the earlier one
OutOfOrderPairs(acts) ==
    Cardinality({i \in 1..(Len(acts) - 1) :
                    HHMM(acts[i + 1].time)[1] < HHMM(acts[i].time)[1]})

\* C24: in a Day whose times are all valid, the durations of the non-last
\* activities add up to minutes(last time) - minutes(first time) plus 1440
\* for every adjacent pair that is out of order: the sum is congruent to the
\* difference modulo 1440, equals it exactly when the times never decrease,
\* and can exceed 1440.
C24_DurationSum ==
    Derived =>
        \A k \in 1..Len(days_data) :
            (/\ Len(Acts(k)) >= 1
             /\ \A i \in 1..Len(Acts(k)) : Acts(k)[i].time \in RangeValidTimes)
            => LET acts  == Acts(k)
                   total == SumOfDurations(acts, Len(acts) - 1)
                   span  == HHMM(acts[Len(acts)].time)[1] - HHMM(acts[1].time)[1]
                   pairs == OutOfOrderPairs(acts)
               IN  /\ total = span + 1440 * pairs
                   /\ (total - span) % 1440 = 0
                   /\ (total = span) <=> (pairs = 0)

\* a Day of three valid times with two pairs out of order, 2359 then 0015
\* then 0000, whose durations add up to 1441 minutes
C24_Witness ==
    /\ Derived
    /\ Len(days_data) = 1
    /\ Len(Acts(1)) = 3
    /\ \A i \in 1..3 : Acts(1)[i].time \in RangeValidTimes
    /\ OutOfOrderPairs(Acts(1)) = 2
    /\ SumOfDurations(Acts(1), 2) = 1441

(* ---------------------------------------------------------------------- *)
(* Texts of headers whose nights are as short and as long as can be       *)
(* ---------------------------------------------------------------------- *)
MaxNightDays == 3

\* two dates a day apart, and one 56 years before them
NightDatePool ==
    {<<"3", "/", "1", "4", "/", "2", "4">>, <<"3", "/", "1", "3", "/", "2", "4">>,
     <<"1", "2", "/", "3", "1", "/", "6", "7">>}

\* start and end times: 2300-2300, 0000-2359 and 2359-0000
NightTimesPool ==
    {<<<<"2", "3", "0", "0">>, <<"2", "3", "0", "0">>>>,
     <<<<"0", "0", "0", "0">>, <<"2", "3", "5", "9">>>>,
     <<<<"2", "3", "5", "9">>, <<"0", "0", "0", "0">>>>}

NightHeaderPool ==
    {HeaderText(H(d, <<"M">>, t[1], t[2])) : d \in NightDatePool, t \in NightTimesPool}

\* texts of up to MaxNightDays headers, the dates in any order
NightInputs == {JoinLines(ls) : ls \in SeqsUpTo(NightHeaderPool, MaxNightDays)}

InitNights == \E text \in NightInputs : InitVars(text)

SpecNights == InitNights /\ [][Next]_vars

\* C25: every sleep interval is of 0 hours or more and of less than 24,
\* however far apart the dates of its two Days are, and a next start equal to
\* the current end gives 0 hours.
C25_SleepRange ==
    Returned =>
        LET order == DateOrder IN
        /\ Len(sleep_data) = Len(order) - 1 \/ Len(order) = 0
        /\ \A j \in 1..Len(sleep_data) :
               LET h == sleep_data[j].sleep_duration_hours
               IN  /\ h[2] > 0
                   /\ 0 <= h[1]
                   /\ h[1] < 24 * h[2]
                   /\ days_data[order[j]].end_time = days_data[order[j + 1]].start_time
                          => h[1] = 0

\* two intervals over three Days: from 12/31/67 to 3/13/24, 56 years apart,
\* with a next start equal to the end and 0 hours, and from 3/13/24 to
\* 3/14/24 with 1439 minutes
C25_Witness ==
    /\ Returned
    /\ Len(sleep_data) = 2
    /\ sleep_data[1].current_date = <<"1", "2", "/", "3", "1", "/", "6", "7">>
    /\ sleep_data[1].next_date = <<"3", "/", "1", "3", "/", "2", "4">>
    /\ sleep_data[1].sleep_duration_hours = <<0, 60>>
    /\ sleep_data[2].next_date = <<"3", "/", "1", "4", "/", "2", "4">>
    /\ sleep_data[2].sleep_duration_hours = <<1439, 60>>

(* ---------------------------------------------------------------------- *)
(* C26                                                                    *)
(* ---------------------------------------------------------------------- *)

\* C26: the sleep_start_date of every sleep interval is the calendar date,
\* year, month and day, that parse_date gave the interval's current Day.
C26_SleepStartDate ==
    Returned =>
        \A j \in 1..Len(sleep_data) : \A k \in 1..Len(days_data) :
            /\ days_data[k].date = sleep_data[j].current_date
            /\ days_data[k].parsed_date # None
            => sleep_data[j].sleep_start_date = days_data[k].parsed_date[1]

(* ---------------------------------------------------------------------- *)
(* Texts of the same headers with different record lines                  *)
(* ---------------------------------------------------------------------- *)
MaxFrameDays == 2

\* the record lines of a Day: none, two records in either order, a record
\* with an hour of 25, a record whose time has a digit that is not decimal,
\* and a line that is no record
FrameBodies ==
    LET lo  == ActivityText(A(<<"2", "3", "3", "0">>, <<"L", "O">>, <<"l", "o">>))
        hw  == ActivityText(A(<<"2", "2", "0", "0">>, <<"P">>, <<"h", "w">>))
        h25 == ActivityText(A(<<"2", "5", "7", "5">>, <<"X">>, <<"h", "w">>))
        sup == ActivityText(A(<<"1", "2", SUP3, "4">>, <<"P">>, <<"h", "w">>))
    IN  {<<>>, <<lo, hw>>, <<hw, lo>>, <<lo, h25>>, <<lo, sup>>, <<Junk>>}

FrameBlocks == {<<HeaderText(h)>> \o b : h \in HeaderPool, b \in FrameBodies}

\* texts of up to MaxFrameDays Day blocks
FrameInputs == {JoinLines(Flatten(bs)) : bs \in SeqsUpTo(FrameBlocks, MaxFrameDays)}

InitFrame == \E text \in FrameInputs : InitVars(text)

SpecFrame == InitFrame /\ [][Next]_vars

\* the header lines of ls
HeadersOnly(ls) == SelectSeq(ls, IsHeaderLine)

\* C27: the sleep table depends on the header lines only: whatever record
\* lines the Days have, none, reordered or garbled, the call gives the sleep
\* intervals it gives on the header lines alone.
C27_SleepFromHeadersOnly ==
    Finished =>
        Result.sleep_data = load_and_parse_data(JoinLines(HeadersOnly(lines))).sleep_data

====
